---- MODULE Spec2Model ----
(***************************************************************************)
(* Model of the tvdatafeed download scripts:                               *)
(*   genspark.py            TvDatafeedTimeRange.get_hist_by_date_range,    *)
(*                          TvDatafeedTimeRange.get_hist_large_date_range  *)
(*   split_and_download.py  calculate_bars_needed, try_direct_download,    *)
(*                          try_alternative_symbols, the __main__ script,  *)
(*                          apply_timezone_adjustments                     *)
(*   bars.py                count_bars                                     *)
(* Timestamps are integers: seconds since midnight of day 0 (taken to be   *)
(* 2024-08-01, the date the quick test of split_and_download.py uses).     *)
(* A table (DataFrame) is a sequence of rows [ts, pl]: ts is the index     *)
(* value, pl the opaque payload (open/high/low/close/volume).  The vendor  *)
(* call get_hist is external: its outcome is any of raise, None, or a      *)
(* table of at most MaxRows rows in any order, duplicates allowed.  Each   *)
(* row the vendor returns carries a payload of its own, <<request, row>>,  *)
(* so that which of two rows with one timestamp survives is observable.    *)
(***************************************************************************)
EXTENDS Integers, Sequences, FiniteSets, TLC

\* ------------------------------------------------------------------ bounds
MaxDay == 3
MaxChunkDays == 2
MaxRows == 2
MaxFreq == 3
MaxSpan == 13
MaxTzRows == 2

\* --------------------------------------------------------------- constants
Day == 86400
EndOfDay == 86399
MaxBarsLimit == 5000
MinBarsLimit == 100
DefaultBarsPerDay == 288
ExtraBars == 10000
TestStartDay == 0

Min(a, b) == IF a < b THEN a ELSE b
Max(a, b) == IF a > b THEN a ELSE b

\* floor and ceiling of a / b for b > 0 (\div rounds towards minus infinity)
FloorDiv(a, b) == a \div b
CeilDiv(a, b) == 0 - ((0 - a) \div b)
\* Python's int(): truncation towards zero of a / b, b > 0
TruncDiv(a, b) == IF a >= 0 THEN a \div b ELSE 0 - ((0 - a) \div b)

\* timedelta.days: whole days of a difference of timestamps, rounded down
DaysOf(delta) == FloorDiv(delta, Day)

\* ------------------------------------------------------------------ tables
NoneValue == [kind |-> "none"]
RaisedValue == [kind |-> "raised"]
TableValue(rows) == [kind |-> "table", rows |-> rows]
UnsetValue == [kind |-> "unset"]

IsEmpty(rows) == Len(rows) = 0

Timestamps(rows) == {rows[i].ts : i \in 1..Len(rows)}

\* df[(df.index >= lo) & (df.index <= hi)]
FilterRange(rows, lo, hi) ==
    SelectSeq(rows, LAMBDA r : r.ts >= lo /\ r.ts <= hi)

RECURSIVE Concat(_)
\* pd.concat(all_data)
Concat(tables) ==
    IF tables = <<>> THEN <<>>
    ELSE Head(tables) \o Concat(Tail(tables))

\* df.index.duplicated(keep='first'): row i repeats an earlier index value
Duplicated(rows, i) == \E j \in 1..(i - 1) : rows[j].ts = rows[i].ts

RECURSIVE KeepFrom(_, _)
KeepFrom(rows, i) ==
    IF i > Len(rows) THEN <<>>
    ELSE IF Duplicated(rows, i) THEN KeepFrom(rows, i + 1)
    ELSE <<rows[i]>> \o KeepFrom(rows, i + 1)

\* df[~df.index.duplicated(keep='last')]: the later occurrence kept instead
DropDuplicatesKeepLast(rows) ==
    LET dupLater(i) == \E j \in (i + 1)..Len(rows) : rows[j].ts = rows[i].ts
        idx == {i \in 1..Len(rows) : ~dupLater(i)}
        F[i \in 0..Len(rows)] ==
            IF i = 0 THEN <<>>
            ELSE IF i \in idx THEN Append(F[i - 1], rows[i]) ELSE F[i - 1]
    IN F[Len(rows)]

\* df[~df.index.duplicated(keep='first')]
DropDuplicates(rows) == KeepFrom(rows, 1)

RECURSIVE InsertSorted(_, _)
InsertSorted(r, sorted) ==
    IF sorted = <<>> THEN <<r>>
    ELSE IF r.ts < Head(sorted).ts THEN <<r>> \o sorted
    ELSE <<Head(sorted)>> \o InsertSorted(r, Tail(sorted))

RECURSIVE SortFrom(_, _)
SortFrom(rows, i) ==
    IF i = 0 THEN <<>>
    ELSE InsertSorted(rows[i], SortFrom(rows, i - 1))

\* df.sort_index(): ascending by index value
SortIndex(rows) == SortFrom(rows, Len(rows))

\* the stitch without the removal of duplicates
StitchNoDedup(tables) == SortIndex(Concat(tables))

\* genspark.py 200-202: concat, drop duplicated index values, sort
Stitch(tables) == SortIndex(DropDuplicates(Concat(tables)))

\* --------------------------------------------------------------- the state
VARIABLES
    prog,           \* the entry point that runs: "large", "by_range", "dl",
                    \* "bars" (count_bars), "tz" (apply_timezone_adjustments)
    pc,             \* its position
    interval,       \* Interval member (genspark) or interval_str (split_and_download)
    start_date,
    end_date,
    chunk_days,
    current_date,   \* cursor of the chunking loop
    all_data,       \* list of the non-empty chunk tables
    result,         \* value returned by the entry point / final_data
    csv_written,    \* whether to_csv was called
    requests,       \* the get_hist calls issued so far, in order
    outcomes,       \* history: what each get_hist call of the chunking loop did
    rawFirst,       \* history: timestamp -> payload of its first row over the raw chunk results
    rawShared,      \* history: timestamps that occur in the raw results of two chunks
    rawInRange,     \* history: <<row number, timestamp>> of the rows of the last raw
                    \* result of try_direct_download that lie in the requested range
    try_alternatives,
    phase,          \* split_and_download: "main", "alt", "test"
    alt,            \* index into alternatives
    attempt,        \* index into bar_requests
    cb_start, cb_end, cb_freq, cb_result,
    adj_tz, conv_tz, tz_in, tz_col, tz_failed, tz_out

fetchVars == <<interval, start_date, end_date, chunk_days, current_date, all_data,
               result, csv_written, requests, outcomes, rawFirst, rawShared,
               rawInRange, try_alternatives, phase, alt, attempt>>
barsVars == <<cb_start, cb_end, cb_freq, cb_result>>
tzVars == <<adj_tz, conv_tz, tz_in, tz_col, tz_failed, tz_out>>
vars == <<prog, pc, fetchVars, barsVars, tzVars>>

\* ------------------------------------------------- the vendor call get_hist
DayTimes == {d * Day : d \in 0..MaxDay}

\* index values a vendor row may carry: midnights, and the requested end itself
FetchTimes(hi) == DayTimes \cup {hi}

\* the table returned by request number req with index values tss
RawTable(req, tss) == [k \in 1..Len(tss) |-> [ts |-> tss[k], pl |-> <<req, k>>]]

FetchOutcomes(req, hi) ==
    {RaisedValue, NoneValue} \cup
    {TableValue(RawTable(req, tss)) :
        tss \in UNION {[1..n -> FetchTimes(hi)] : n \in 0..MaxRows}}

\* ------------------------------------------------------------- genspark.py
Intervals == {"in_1_minute", "in_daily"}

\* self.bars_per_day as a fraction <<numerator, denominator>>; .get(interval, 1)
BarsPerDay(iv) ==
    CASE iv = "in_1_minute" -> <<1440, 1>>
      [] iv = "in_3_minute" -> <<480, 1>>
      [] iv = "in_5_minute" -> <<288, 1>>
      [] iv = "in_15_minute" -> <<96, 1>>
      [] iv = "in_30_minute" -> <<48, 1>>
      [] iv = "in_45_minute" -> <<32, 1>>
      [] iv = "in_1_hour" -> <<24, 1>>
      [] iv = "in_2_hour" -> <<12, 1>>
      [] iv = "in_3_hour" -> <<8, 1>>
      [] iv = "in_4_hour" -> <<6, 1>>
      [] iv = "in_daily" -> <<1, 1>>
      [] iv = "in_weekly" -> <<1, 7>>
      [] iv = "in_monthly" -> <<1, 30>>
      [] OTHER -> <<1, 1>>

\* the estimate without the clamp to [100, 5000]
EstimatedBarsUnclamped(lo, hi, iv) ==
    CeilDiv(DaysOf(hi - lo) * BarsPerDay(iv)[1] * 12, BarsPerDay(iv)[2] * 10)

\* genspark.py 96-107: ceil(days * bars_per_day * 1.2) clamped to [100, 5000]
EstimatedBars(lo, hi, iv) ==
    Max(Min(EstimatedBarsUnclamped(lo, hi, iv), MaxBarsLimit), MinBarsLimit)

\* get_hist_by_date_range with the except clause left out: the error escapes
HistByDateRangeNoCatch(out, lo, hi) ==
    IF out.kind = "raised" THEN RaisedValue
    ELSE IF out.kind = "none" \/ IsEmpty(out.rows) THEN NoneValue
    ELSE TableValue(FilterRange(out.rows, lo, hi))

\* get_hist_by_date_range with the upper bound of the filter left out
HistByDateRangeNoUpper(out, lo, hi) ==
    IF out.kind = "raised" THEN NoneValue
    ELSE IF out.kind = "none" \/ IsEmpty(out.rows) THEN NoneValue
    ELSE TableValue(SelectSeq(out.rows, LAMBDA r : r.ts >= lo))

\* genspark.py 111-161: the data get_hist_by_date_range returns for the vendor
\* outcome out: None when the call raised (except clause), returned None or
\* returned an empty table; otherwise the rows with lo <= ts <= hi
HistByDateRange(out, lo, hi) ==
    IF out.kind = "raised" THEN NoneValue
    ELSE IF out.kind = "none" \/ IsEmpty(out.rows) THEN NoneValue
    ELSE TableValue(FilterRange(out.rows, lo, hi))

\* genspark.py 141: save_csv and not filtered_data.empty
SavesCsv(res, save_csv) == save_csv /\ res.kind = "table" /\ ~IsEmpty(res.rows)

Request(n, lo, hi, sym) == [n_bars |-> n, lo |-> lo, hi |-> hi, sym |-> sym]

\* genspark.py 179: while current_date < end_date
LoopCond(cur, hi) == cur < hi

\* genspark.py 180: min(current_date + timedelta(days=chunk_days), end_date)
ChunkEnd(cur, cd, hi) == Min(cur + cd * Day, hi)

\* a cursor that advances by one day instead of past the chunk
NextCursorOneDay(cur, chunkEnd) == cur + Day

\* a cursor that stays on the chunk: the same window is fetched again
NextCursorStay(cur, chunkEnd) == cur

\* genspark.py 196: current_date = chunk_end + timedelta(days=1)
NextCursor(cur, chunkEnd) == chunkEnd + Day

\* genspark.py 184-196: the loop goes on whatever the chunk returned; an
\* exception escaping get_hist_by_date_range would end the run
KeepGoing(res) == res.kind # "raised"

\* returning an empty table when no chunk had data
LargeReturnEmptyTable(tables) == TableValue(Stitch(tables))

\* genspark.py 198-224: the combined table, or None when no chunk had data
LargeReturn(tables) ==
    IF tables # <<>> THEN TableValue(Stitch(tables)) ELSE NoneValue

\* history of the raw chunk results (not program state)
RawFirstAfter(first, out) ==
    IF out.kind # "table" THEN first
    ELSE [t \in DOMAIN first |->
            IF first[t] # <<>> \/ t \notin Timestamps(out.rows) THEN first[t]
            ELSE LET k == CHOOSE i \in 1..Len(out.rows) :
                              /\ out.rows[i].ts = t
                              /\ \A j \in 1..(i - 1) : out.rows[j].ts # t
                 IN out.rows[k].pl]

RawSharedAfter(first, shared, out) ==
    IF out.kind # "table" THEN shared
    ELSE shared \cup {t \in DOMAIN first : first[t] # <<>> /\ t \in Timestamps(out.rows)}

\* history: "raised", "none", "empty", "out_of_range" (rows, none in range), "table"
OutcomeKind(out, lo, hi) ==
    IF out.kind # "table" THEN out.kind
    ELSE IF IsEmpty(out.rows) THEN "empty"
    ELSE IF IsEmpty(FilterRange(out.rows, lo, hi)) THEN "out_of_range"
    ELSE "table"

\* history of try_direct_download: the rows of a raw result inside the range
RawInRange(out, lo, hi) ==
    IF out.kind # "table" THEN {}
    ELSE {<<k, out.rows[k].ts>> : k \in {i \in 1..Len(out.rows) :
                                           lo <= out.rows[i].ts /\ out.rows[i].ts <= hi}}

bookUnchanged == UNCHANGED <<prog, interval, start_date, end_date, chunk_days,
                             try_alternatives, barsVars, tzVars>>

\* get_hist_large_date_range, one iteration of the loop (genspark.py 179-196)
LargeChunk ==
    /\ prog = "large" /\ pc = "loop"
    /\ LoopCond(current_date, end_date)
    /\ LET chunk_end == ChunkEnd(current_date, chunk_days, end_date)
           req == Len(requests) + 1
       IN \E out \in FetchOutcomes(req, end_date) :
            LET res == HistByDateRange(out, current_date, chunk_end)
            IN /\ requests' = Append(requests,
                      Request(EstimatedBars(current_date, chunk_end, interval),
                              current_date, chunk_end, "main"))
               /\ outcomes' = Append(outcomes, OutcomeKind(out, current_date, chunk_end))
               /\ rawFirst' = RawFirstAfter(rawFirst, out)
               /\ rawShared' = RawSharedAfter(rawFirst, rawShared, out)
               /\ all_data' = IF res.kind = "table" /\ ~IsEmpty(res.rows)
                              THEN Append(all_data, res.rows) ELSE all_data
               /\ IF KeepGoing(res)
                  THEN /\ current_date' = NextCursor(current_date, chunk_end)
                       /\ pc' = "loop"
                  ELSE /\ current_date' = current_date
                       /\ pc' = "crashed"
    /\ UNCHANGED <<result, csv_written, rawInRange, phase, alt, attempt>>
    /\ bookUnchanged

\* get_hist_large_date_range after the loop (genspark.py 198-224), save_csv=True
LargeFinish ==
    /\ prog = "large" /\ pc = "loop"
    /\ ~LoopCond(current_date, end_date)
    /\ result' = LargeReturn(all_data)
    /\ csv_written' = (all_data # <<>>)
    /\ pc' = "done"
    /\ UNCHANGED <<current_date, all_data, requests, outcomes, rawFirst, rawShared,
                   rawInRange, phase, alt, attempt>>
    /\ bookUnchanged

\* main(): one call of get_hist_by_date_range with save_csv=True (genspark.py 90-161)
ByRangeCall ==
    /\ prog = "by_range" /\ pc = "call"
    /\ \E out \in FetchOutcomes(1, end_date) :
         LET res == HistByDateRange(out, start_date, end_date)
         IN /\ requests' = Append(requests,
                   Request(EstimatedBars(start_date, end_date, interval),
                           start_date, end_date, "main"))
            /\ outcomes' = Append(outcomes, OutcomeKind(out, start_date, end_date))
            /\ result' = res
            /\ csv_written' = SavesCsv(res, TRUE)
            /\ pc' = IF res.kind = "raised" THEN "crashed" ELSE "done"
    /\ UNCHANGED <<current_date, all_data, rawFirst, rawShared, rawInRange,
                   phase, alt, attempt>>
    /\ bookUnchanged

\* ------------------------------------------------------ split_and_download.py
\* keys of interval_map (split_and_download.py 163-174)
IntervalMap == {"1min", "3min", "5min", "15min", "30min", "1h", "4h", "1d", "1w", "1M"}

\* interval strings the user may type: a key of interval_map and one that is not
IntervalStrs == {"1d", "2h"}

\* split_and_download.py 176: interval_str in interval_map
IntervalValid(istr) == istr \in IntervalMap

\* bars_per_day of calculate_bars_needed; .get(interval_str, 288)
BarsPerDayStr(istr) ==
    CASE istr = "1min" -> <<1440, 1>>
      [] istr = "3min" -> <<480, 1>>
      [] istr = "5min" -> <<288, 1>>
      [] istr = "15min" -> <<96, 1>>
      [] istr = "30min" -> <<48, 1>>
      [] istr = "1h" -> <<24, 1>>
      [] istr = "4h" -> <<6, 1>>
      [] istr = "1d" -> <<1, 1>>
      [] istr = "1w" -> <<1, 7>>
      [] istr = "1M" -> <<1, 30>>
      [] OTHER -> <<DefaultBarsPerDay, 1>>

\* split_and_download.py 6-26: int(total_days * bars_per_day)
calculate_bars_needed(lo, hi, istr) ==
    TruncDiv(DaysOf(hi - lo) * BarsPerDayStr(istr)[1], BarsPerDayStr(istr)[2])

\* split_and_download.py 35-43
bar_requests(est) ==
    <<est, est + ExtraBars, 50000, 100000, 200000, 500000, 1000000>>

\* split_and_download.py 83-92, (symbol, exchange); the first is the base symbol
alternatives ==
    <<"base@CRYPTOCAP", "BTCDOM@CRYPTOCAP", "BTC.D@CRYPTOCAP", "BTCDOMUSDT@BINANCE",
      "BTCDOM@BYBIT", "BTCUSDT@BINANCE", "BTC@BITSTAMP">>

\* an attempt that keeps the table as the vendor returned it, unfiltered
DirectUnfiltered(out, lo, hi) ==
    IF out.kind = "table" THEN out.rows ELSE <<>>

\* split_and_download.py 48-75: df_filtered of one attempt; no rows when the
\* call raised (except clause), returned None or returned an empty table
DirectFiltered(out, lo, hi) ==
    IF out.kind = "table" /\ ~IsEmpty(out.rows)
    THEN FilterRange(out.rows, lo, hi)
    ELSE <<>>

\* start of the range the running try_direct_download call was given
DirectLo == IF phase = "test" THEN TestStartDay * Day ELSE start_date

DirectSym ==
    CASE phase = "main" -> "main"
      [] phase = "alt" -> alternatives[alt]
      [] phase = "test" -> "BTCUSDT@BINANCE"

\* __main__ up to the interval check (split_and_download.py 148-180)
DLValidate ==
    /\ prog = "dl" /\ pc = "validate"
    /\ IF IntervalValid(interval)
       THEN pc' = "attempt"
       ELSE pc' = "exit"
    /\ UNCHANGED <<current_date, all_data, result, csv_written, requests, outcomes,
                   rawFirst, rawShared, rawInRange, phase, alt, attempt>>
    /\ bookUnchanged

\* one iteration of the loop of try_direct_download (split_and_download.py
\* 45-77) and, when the call returns, what its caller does with the value:
\* __main__ (204-213), try_alternative_symbols (94-107), the quick test (255-260)
DLAttempt ==
    /\ prog = "dl" /\ pc = "attempt"
    /\ LET lo == DirectLo
           hi == end_date
           req == Len(requests) + 1
           n == bar_requests(calculate_bars_needed(lo, hi, interval))[attempt]
       IN \E out \in FetchOutcomes(req, hi) :
            LET df_filtered == DirectFiltered(out, lo, hi)
                returns == ~IsEmpty(df_filtered) \/ attempt = Len(bar_requests(0))
            IN /\ requests' = Append(requests, Request(n, lo, hi, DirectSym))
               /\ outcomes' = <<OutcomeKind(out, lo, hi)>>
               /\ rawInRange' = RawInRange(out, lo, hi)
               /\ IF ~returns
                  THEN /\ attempt' = attempt + 1
                       /\ UNCHANGED <<phase, alt, result, pc>>
                  ELSE CASE phase = "main" ->
                              /\ result' = TableValue(df_filtered)
                              /\ attempt' = 1
                              /\ IF IsEmpty(df_filtered) /\ try_alternatives
                                 THEN phase' = "alt" /\ alt' = 1 /\ pc' = "attempt"
                                 ELSE UNCHANGED <<phase, alt>> /\ pc' = "after"
                         [] phase = "alt" ->
                              /\ result' = TableValue(df_filtered)
                              /\ attempt' = 1
                              /\ IF IsEmpty(df_filtered) /\ alt < Len(alternatives)
                                 THEN alt' = alt + 1 /\ pc' = "attempt"
                                 ELSE alt' = alt /\ pc' = "after"
                              /\ UNCHANGED phase
                         [] phase = "test" ->
                              /\ pc' = "done"
                              /\ UNCHANGED <<phase, alt, attempt, result>>
    /\ UNCHANGED <<current_date, all_data, csv_written, rawFirst, rawShared>>
    /\ bookUnchanged

\* __main__ after the download (split_and_download.py 215-260): save the data,
\* or start the quick test with BTCUSDT
DLAfter ==
    /\ prog = "dl" /\ pc = "after"
    /\ IF ~IsEmpty(result.rows)
       THEN /\ csv_written' = TRUE
            /\ pc' = "done"
            /\ UNCHANGED <<phase, attempt>>
       ELSE /\ phase' = "test"
            /\ attempt' = 1
            /\ pc' = "attempt"
            /\ UNCHANGED csv_written
    /\ UNCHANGED <<current_date, all_data, result, requests, outcomes,
                   rawFirst, rawShared, rawInRange, alt>>
    /\ bookUnchanged

\* -------------------------------------------------------- initial states
idleBars == cb_start = 0 /\ cb_end = 0 /\ cb_freq = 1 /\ cb_result = 0

idleTz ==
    /\ adj_tz = FALSE /\ conv_tz = FALSE /\ tz_in = <<>>
    /\ tz_col = [tz |-> "naive", rows |-> <<>>]
    /\ tz_failed = FALSE /\ tz_out = UnsetValue

freshFetch ==
    /\ current_date = start_date
    /\ all_data = <<>>
    /\ result = UnsetValue
    /\ csv_written = FALSE
    /\ requests = <<>>
    /\ outcomes = <<>>
    /\ rawFirst = [t \in DayTimes |-> <<>>]
    /\ rawShared = {}
    /\ rawInRange = {}
    /\ phase = "main" /\ alt = 0 /\ attempt = 1

\* example_large_range(): get_hist_large_date_range(start, end, chunk_days)
InitLarge ==
    /\ prog = "large" /\ pc = "loop"
    /\ interval \in Intervals
    /\ start_date \in DayTimes
    /\ end_date \in DayTimes
    /\ chunk_days \in 1..MaxChunkDays
    /\ try_alternatives = FALSE
    /\ freshFetch /\ idleBars /\ idleTz

\* main() of genspark.py: get_hist_by_date_range(start, end)
InitByRange ==
    /\ prog = "by_range" /\ pc = "call"
    /\ interval \in Intervals
    /\ start_date \in DayTimes
    /\ end_date \in DayTimes
    /\ chunk_days = 1
    /\ try_alternatives = FALSE
    /\ freshFetch /\ idleBars /\ idleTz

\* __main__ of split_and_download.py: dates typed as days, " 00:00:00" and
\* " 23:59:59" appended (152-153)
InitDL ==
    /\ prog = "dl" /\ pc = "validate"
    /\ interval \in IntervalStrs
    /\ start_date \in DayTimes
    /\ end_date \in {t + EndOfDay : t \in DayTimes}
    /\ chunk_days = 1
    /\ try_alternatives \in BOOLEAN
    /\ freshFetch /\ idleBars /\ idleTz

Init == InitLarge \/ InitByRange \/ InitDL

Next == LargeChunk \/ LargeFinish \/ ByRangeCall \/ DLValidate \/ DLAttempt \/ DLAfter

Spec == Init /\ [][Next]_vars

\* the scripts are sequential and every vendor call is taken to return
FairSpec == Spec /\ WF_vars(Next)

\* ------------------------------------------------------------------ bars.py
\* len(pd.date_range(start, end, freq)) for a fixed frequency: the points
\* start, start + freq, ... up to and including end
date_range_len(start, end, freq) ==
    IF start > end THEN 0 ELSE ((end - start) \div freq) + 1

\* rng[-1]
date_range_last(start, end, freq) ==
    start + (date_range_len(start, end, freq) - 1) * freq

\* count_bars without the exclusion of a last point that falls on end
count_bars_inclusive(start, end, freq) == date_range_len(start, end, freq)

\* bars.py 15-19
count_bars(start, end, freq) ==
    IF date_range_len(start, end, freq) > 0 /\ date_range_last(start, end, freq) = end
    THEN date_range_len(start, end, freq) - 1
    ELSE date_range_len(start, end, freq)

idleFetch ==
    /\ interval = "in_daily" /\ start_date = 0 /\ end_date = 0 /\ chunk_days = 1
    /\ try_alternatives = FALSE
    /\ freshFetch

InitBars ==
    /\ prog = "bars" /\ pc = "call"
    /\ cb_start \in 0..MaxSpan
    /\ cb_end \in 0..MaxSpan
    /\ cb_freq \in 1..MaxFreq
    /\ cb_result = 0
    /\ idleFetch /\ idleTz

CountBarsCall ==
    /\ prog = "bars" /\ pc = "call"
    /\ cb_result' = count_bars(cb_start, cb_end, cb_freq)
    /\ pc' = "done"
    /\ UNCHANGED <<prog, cb_start, cb_end, cb_freq, fetchVars, tzVars>>

SpecBars == InitBars /\ [][CountBarsCall]_vars

\* ------------------------------- split_and_download.py, timezone adjustment
(* The datetime column is [tz, rows]: tz is "naive", "America/Sao_Paulo" or  *)
(* "UTC", and rows[i].ts is the wall-clock hour of row i.  The hours of the  *)
(* model lie around the start of daylight saving time in Sao Paulo: before   *)
(* GapHour the zone is 3 hours behind UTC, GapHour itself does not exist on  *)
(* the local clock (tz_localize raises on it), after it the zone is 2 hours  *)
(* behind UTC.                                                               *)
GapHour == 2
StdBehindUtc == 3
DstBehindUtc == 2
MaxWall == 3

Walls == 0..MaxWall

BehindUtc(wall) == IF wall < GapHour THEN StdBehindUtc ELSE DstBehindUtc

\* .dt.tz_localize('America/Sao_Paulo') raises on a non-existent local time
LocalizeRaises(col) ==
    \/ col.tz # "naive"
    \/ \E i \in 1..Len(col.rows) : col.rows[i].ts = GapHour

\* .dt.tz_localize('America/Sao_Paulo'): the wall-clock values get the label
tz_localize(col) == [tz |-> "America/Sao_Paulo", rows |-> col.rows]

\* .dt.tz_convert('UTC'): the same instants on the UTC clock
tz_convert(col) ==
    [tz |-> "UTC",
     rows |-> [i \in 1..Len(col.rows) |->
                 [col.rows[i] EXCEPT !.ts = col.rows[i].ts + BehindUtc(col.rows[i].ts)]]]

\* split_and_download.py 111: if not adj_tz or df.empty
TzEarlyReturn(adj, conv, rows) == ~adj \/ IsEmpty(rows)

\* a version that converts whenever it has localized
TzConvertsAlways(conv) == TRUE

\* split_and_download.py 124: if conv_tz
TzConverts(conv) == conv

TzTables ==
    {[k \in 1..Len(tss) |-> [ts |-> tss[k], pl |-> <<0, k>>]] :
        tss \in UNION {[1..n -> Walls] : n \in 0..MaxTzRows}}

InitTz ==
    /\ prog = "tz" /\ pc = "enter"
    /\ adj_tz \in BOOLEAN
    /\ conv_tz \in BOOLEAN
    /\ tz_in \in TzTables
    /\ tz_col = [tz |-> "naive", rows |-> <<>>]
    /\ tz_failed = FALSE
    /\ tz_out = UnsetValue
    /\ idleFetch /\ idleBars

tzUnchanged == UNCHANGED <<prog, adj_tz, conv_tz, tz_in, fetchVars, barsVars>>

\* split_and_download.py 111-116: the early return, or the copy
TzEnter ==
    /\ prog = "tz" /\ pc = "enter"
    /\ IF TzEarlyReturn(adj_tz, conv_tz, tz_in)
       THEN /\ tz_out' = [tz |-> "naive", rows |-> tz_in]
            /\ pc' = "done"
            /\ UNCHANGED tz_col
       ELSE /\ tz_col' = [tz |-> "naive", rows |-> tz_in]
            /\ pc' = "localize"
            /\ UNCHANGED tz_out
    /\ UNCHANGED tz_failed
    /\ tzUnchanged

\* split_and_download.py 118-121 and the except clause 127-130
TzLocalize ==
    /\ prog = "tz" /\ pc = "localize"
    /\ IF LocalizeRaises(tz_col)
       THEN /\ tz_failed' = TRUE
            /\ pc' = "set_index"
            /\ UNCHANGED tz_col
       ELSE /\ tz_col' = tz_localize(tz_col)
            /\ pc' = IF TzConverts(conv_tz) THEN "convert" ELSE "set_index"
            /\ UNCHANGED tz_failed
    /\ UNCHANGED tz_out
    /\ tzUnchanged

\* split_and_download.py 124-126 and the except clause 127-130.  The library
\* call of line 125 sits inside the try block: it either returns the converted
\* column or raises, and when it raises the assignment of line 125 does not
\* happen while the one of line 120 stays in place.
TzConvert ==
    /\ prog = "tz" /\ pc = "convert"
    /\ \E raises \in BOOLEAN :
          IF raises
          THEN /\ tz_failed' = TRUE
               /\ UNCHANGED tz_col
          ELSE /\ tz_col' = tz_convert(tz_col)
               /\ UNCHANGED tz_failed
    /\ pc' = "set_index"
    /\ UNCHANGED tz_out
    /\ tzUnchanged

\* split_and_download.py 132-133
TzReturn ==
    /\ prog = "tz" /\ pc = "set_index"
    /\ tz_out' = tz_col
    /\ pc' = "done"
    /\ UNCHANGED <<tz_col, tz_failed>>
    /\ tzUnchanged

NextTz == TzEnter \/ TzLocalize \/ TzConvert \/ TzReturn

SpecTz == InitTz /\ [][NextTz]_vars

\* ------------------------------------------------------------------ claims
LargeDone == prog = "large" /\ pc = "done"

\* the range a row was requested for: the window of the request in its payload
RowLo(r) == requests[r.pl[1]].lo
RowHi(r) == requests[r.pl[1]].hi

Rows(rows) == {rows[i] : i \in 1..Len(rows)}

\* the rows of all chunk tables, in the order of the concatenation
ChunkRows == Concat(all_data)

ValidRange == start_date < end_date

\* C1: for start < end and chunk_days >= 1 the chunks of the loop of
\* get_hist_large_date_range tile the requested range: the first starts at
\* start_date, the last ends at end_date, and each chunk's end is the next
\* chunk's start (no gap, no overlap).
C1_ChunksTileRange ==
    (LargeDone /\ ValidRange) =>
        /\ Len(requests) >= 1
        /\ requests[1].lo = start_date
        /\ requests[Len(requests)].hi = end_date
        /\ \A i \in 1..(Len(requests) - 1) : requests[i].hi = requests[i + 1].lo

\* the period of one bar in seconds, and the most bars one chunk can hold
PeriodSeconds(iv) == (Day * BarsPerDay(iv)[2]) \div BarsPerDay(iv)[1]
MaxBarsPerChunk == (chunk_days * BarsPerDay(interval)[1]) \div BarsPerDay(interval)[2]

ChunkCountBound ==
    CeilDiv(count_bars(start_date, end_date, PeriodSeconds(interval)), MaxBarsPerChunk)

\* under fairness of the steps a chunked fetch of a valid range reaches done
LargeEventuallyDone == (prog = "large" /\ ValidRange) ~> (pc = "done")

\* C2: for start < end and chunk_days >= 1 the chunking loop terminates, and it
\* issues at most ceil(count_bars(start, end, period) / max_bars) chunks: every
\* step of the loop either leaves it or issues exactly one more chunk, the
\* number of chunks issued never exceeds the bound, and a run that is not done
\* is in the loop (where LargeChunk or LargeFinish can be taken), never aborted.
C2_TerminatesWithinBound ==
    /\ [][(prog = "large" /\ ValidRange /\ pc = "loop") =>
            \/ pc' = "done"
            \/ pc' = "loop" /\ Len(requests') = Len(requests) + 1]_vars
    /\ []((prog = "large" /\ ValidRange) =>
            /\ Len(requests) <= ChunkCountBound
            /\ (pc # "done" => pc = "loop"))

C2_Witness ==
    /\ LargeDone /\ ValidRange
    /\ Len(requests) >= 2
    /\ Len(requests) <= ChunkCountBound

\* C3: for start <= end and a positive period, count_bars is the number of
\* points start + k * period (k >= 0) that are strictly less than end; start
\* counts when start < end, a point on end does not, count_bars(t, t, p) = 0.
C3_CountBarsHalfOpen ==
    (prog = "bars" /\ pc = "done" /\ cb_start <= cb_end) =>
        /\ cb_result = Cardinality({k \in 0..MaxSpan : cb_start + k * cb_freq < cb_end})
        /\ (cb_start = cb_end => cb_result = 0)

\* one hour at a period of five minutes, in units of five minutes: 12 bars
C3_Witness ==
    /\ prog = "bars" /\ pc = "done"
    /\ cb_start = 0 /\ cb_end = 12 /\ cb_freq = 1
    /\ cb_result = 12

\* rows returned so far by the date-range fetches: the chunk tables and the
\* returned table
ReturnedRows ==
    Rows(ChunkRows) \cup (IF result.kind = "table" THEN Rows(result.rows) ELSE {})

\* C4 as stated: every row a date-range fetch returns has start <= ts < end of
\* the range it was requested for; a bar stamped exactly at the end is excluded.
C4_RowsInHalfOpenRange ==
    (prog \in {"large", "by_range", "dl"}) =>
        \A r \in ReturnedRows : RowLo(r) <= r.ts /\ r.ts < RowHi(r)

\* C4 amended: every row a date-range fetch returns has start <= ts <= end of
\* the range it was requested for (rows outside are discarded, a bar stamped
\* exactly at the end is kept), and the rows of the final table of the chunked
\* fetch lie in [start_date, end_date].
C4_RowsInClosedRange ==
    (prog \in {"large", "by_range", "dl"}) =>
        /\ \A r \in ReturnedRows : RowLo(r) <= r.ts /\ r.ts <= RowHi(r)
        /\ (prog # "dl" /\ result.kind = "table") =>
              \A r \in Rows(result.rows) : start_date <= r.ts /\ r.ts <= end_date

\* a chunked fetch that kept a bar stamped at the end of its chunk and dropped
\* a fetched row of another day
C4_Witness ==
    /\ LargeDone
    /\ result.kind = "table"
    /\ \E r \in Rows(result.rows) : r.ts = RowHi(r) /\ RowLo(r) < RowHi(r)
    /\ \E t \in DayTimes : rawFirst[t] # <<>> /\ t \notin Timestamps(result.rows)

\* C5: whatever the chunk fetches return, the table the chunked fetch returns is
\* strictly ascending by timestamp (sorted, no timestamp twice).
C5_StrictlyAscending ==
    (LargeDone /\ result.kind = "table") =>
        \A i, j \in 1..Len(result.rows) :
            i < j => result.rows[i].ts < result.rows[j].ts

\* chunk tables with a repeated timestamp and with rows out of order
C5_Witness ==
    /\ LargeDone
    /\ result.kind = "table"
    /\ \E i, j \in 1..Len(ChunkRows) : i < j /\ ChunkRows[i].ts = ChunkRows[j].ts
    /\ \E i, j \in 1..Len(ChunkRows) : i < j /\ ChunkRows[i].ts > ChunkRows[j].ts

RowsAt(rows, t) == {i \in 1..Len(rows) : rows[i].ts = t}

FirstAt(rows, t) == CHOOSE i \in RowsAt(rows, t) : \A j \in RowsAt(rows, t) : i <= j

\* C6 as stated: when the fetch results of two chunks both contain a row for a
\* timestamp, the stitched output has exactly one row for it, with the payload
\* of the first occurrence, the chronologically earlier chunk's row.
C6_SharedTimestampKeepsEarlierChunk ==
    LargeDone =>
        \A t \in rawShared :
            /\ result.kind = "table"
            /\ Cardinality(RowsAt(result.rows, t)) = 1
            /\ \A i \in RowsAt(result.rows, t) : result.rows[i].pl = rawFirst[t]

\* C6 amended: for every timestamp that occurs in the concatenation of the
\* filtered chunk tables (more than once only within one chunk, the chunk
\* windows being disjoint) the stitched output has exactly one row, with the
\* payload of the first occurrence in concatenation order; a timestamp that the
\* raw results of two chunks share has at most one row in the output, and that
\* row comes from the chunk whose window contains the timestamp.
C6_FirstInConcatenationWins ==
    (LargeDone /\ result.kind = "table") =>
        /\ \A t \in Timestamps(ChunkRows) :
              /\ Cardinality(RowsAt(result.rows, t)) = 1
              /\ \A i \in RowsAt(result.rows, t) :
                    result.rows[i].pl = ChunkRows[FirstAt(ChunkRows, t)].pl
        /\ \A t \in rawShared :
              /\ Cardinality(RowsAt(result.rows, t)) <= 1
              /\ \A i \in RowsAt(result.rows, t) :
                    RowLo(result.rows[i]) <= t /\ t <= RowHi(result.rows[i])

\* a timestamp twice in one chunk table, and a timestamp shared by two raw
\* results whose surviving row is not the earlier chunk's
C6_Witness ==
    /\ LargeDone
    /\ result.kind = "table"
    /\ \E t \in Timestamps(ChunkRows) : Cardinality(RowsAt(ChunkRows, t)) >= 2
    /\ \E t \in rawShared : \E i \in RowsAt(result.rows, t) :
          result.rows[i].pl # rawFirst[t]

RECURSIVE PlannedChunks(_)
\* the chunks the loop is to fetch from cursor cur on, whatever the fetches do
PlannedChunks(cur) ==
    IF cur < end_date
    THEN <<<<cur, Min(cur + chunk_days * Day, end_date)>>>>
            \o PlannedChunks(Min(cur + chunk_days * Day, end_date) + Day)
    ELSE <<>>

\* C7: a chunk whose fetch raises or returns no data counts as an empty result
\* for that chunk only: the run does not abort, every planned chunk is still
\* fetched, and the rows of the chunks that succeeded are all in the final table.
C7_FailedChunkDoesNotAbort ==
    (prog = "large") =>
        /\ pc # "crashed"
        /\ Len(outcomes) = Len(requests)
        /\ LargeDone =>
              /\ [i \in 1..Len(requests) |-> <<requests[i].lo, requests[i].hi>>]
                    = PlannedChunks(start_date)
              /\ Len(all_data) = Cardinality({i \in 1..Len(outcomes) : outcomes[i] = "table"})
              /\ (all_data # <<>>) => result.kind = "table"
              /\ \A r \in Rows(ChunkRows) :
                    /\ result.kind = "table"
                    /\ r.ts \in Timestamps(result.rows)
                    /\ (r = ChunkRows[FirstAt(ChunkRows, r.ts)]) => r \in Rows(result.rows)

\* a chunk whose fetch raised, then a chunk with data that is in the final table
C7_Witness ==
    /\ LargeDone
    /\ result.kind = "table"
    /\ \E i, j \in 1..Len(outcomes) :
          /\ i < j
          /\ outcomes[i] = "raised"
          /\ outcomes[j] = "table"
          /\ \E r \in Rows(result.rows) : r.pl[1] = j

NoDataKinds == {"raised", "none", "empty", "out_of_range"}

AllChunksNoData ==
    /\ LargeDone
    /\ Len(requests) >= 1
    /\ \A i \in 1..Len(outcomes) : outcomes[i] \in NoDataKinds

DirectNoData ==
    /\ prog = "dl" /\ pc = "after"
    /\ outcomes[1] \in NoDataKinds

InvalidInput ==
    \/ prog \in {"large", "by_range", "dl"} /\ start_date >= end_date
    \/ prog = "dl" /\ interval \notin IntervalMap
    \/ prog = "large" /\ chunk_days <= 0

\* C9: invalid input (a period outside the enumerated set, start >= end, a
\* non-positive per-request maximum) is rejected before planning: no fetch
\* request is issued and no output is written.
C9_InvalidInputRejected ==
    InvalidInput => (requests = <<>> /\ ~csv_written)

TzDone == prog = "tz" /\ pc = "done"

TzShifted == \E i \in 1..Len(tz_in) : tz_out.rows[i].ts # tz_in[i].ts

\* C10: the timezone step changes only what was requested.  Without adjust the
\* table is returned as it was, whatever the convert flag; with adjust and
\* without convert the wall-clock values are kept and, the relabeling not
\* having raised, the column carries the Sao Paulo label; wall-clock values
\* differ from the input only when both flags are set, and then they are the
\* UTC clock values; row count, row order and payloads are kept in all cases.
C10_TimezoneFrame ==
    TzDone =>
        /\ Len(tz_out.rows) = Len(tz_in)
        /\ \A i \in 1..Len(tz_in) : tz_out.rows[i].pl = tz_in[i].pl
        /\ ~adj_tz => tz_out = [tz |-> "naive", rows |-> tz_in]
        /\ (adj_tz /\ ~conv_tz) =>
              /\ tz_out.rows = tz_in
              /\ (~tz_failed /\ tz_in # <<>>) => tz_out.tz = "America/Sao_Paulo"
        /\ TzShifted => (adj_tz /\ conv_tz)
        /\ (adj_tz /\ conv_tz /\ ~tz_failed /\ tz_in # <<>>) =>
              /\ tz_out.tz = "UTC"
              /\ \A i \in 1..Len(tz_in) :
                    tz_out.rows[i].ts = tz_in[i].ts + BehindUtc(tz_in[i].ts)

\* adjust without convert on a table of two rows out of order
C10_Witness ==
    /\ TzDone
    /\ adj_tz /\ ~conv_tz /\ ~tz_failed
    /\ Len(tz_in) >= 2
    /\ tz_in[1].ts > tz_in[2].ts
    /\ tz_out = [tz |-> "America/Sao_Paulo", rows |-> tz_in]

\* the table apply_timezone_adjustments was given, its timestamps unlabeled
TzOriginal == [tz |-> "naive", rows |-> tz_in]

\* C11: when a timezone step raised (the relabeling, or the conversion after a
\* relabeling that succeeded), the table returned is the original one: the
\* original timestamps, carrying no timezone label and not converted.
C11_TzFailureReturnsOriginal ==
    (TzDone /\ tz_failed) => tz_out = TzOriginal

\* the half of C11 the code keeps: a relabeling that raised leaves the column
\* untouched up to the return
TzLocalizeFailureReturnsOriginal ==
    (TzDone /\ tz_failed /\ LocalizeRaises(TzOriginal)) => tz_out = TzOriginal

\* two get_hist calls made for the same range of the same symbol
SameRange(a, b) == a.lo = b.lo /\ a.hi = b.hi /\ a.sym = b.sym

\* C12, as claimed: no fetch is retried, i.e. within one run no two calls of
\* the vendor are for the same requested range, in any entry point.
C12_NoFetchRetried ==
    \A i, j \in 1..Len(requests) :
        i < j => ~SameRange(requests[i], requests[j])

\* C12, amended: the chunking loop of get_hist_large_date_range (and the single
\* call of get_hist_by_date_range) never fetches a window twice: the first call
\* is for the window starting at start_date, every later call is for the window
\* starting one day after the end of the previous one, whatever the previous
\* call did, and each loop step issues exactly one call.  try_direct_download
\* does retry: the calls it has made so far in its running invocation are all
\* for the one range and symbol it was given.
C12_ChunksFetchedOnceInOrder ==
    /\ prog \in {"large", "by_range"} =>
          /\ Len(outcomes) = Len(requests)
          /\ requests # <<>> => requests[1].lo = start_date
          /\ \A i \in 1..(Len(requests) - 1) :
                requests[i + 1].lo = requests[i].hi + Day
          /\ \A i, j \in 1..Len(requests) :
                i < j => ~SameRange(requests[i], requests[j])
    /\ (prog = "dl" /\ pc = "attempt") =>
          /\ attempt - 1 <= Len(requests)
          /\ \A k \in 1..(attempt - 1) :
                SameRange(requests[Len(requests) - (attempt - 1) + k],
                          Request(0, DirectLo, end_date, DirectSym))

\* a chunk that raised or came back without data, followed by the fetch of the
\* next chunk
C12_Witness ==
    /\ LargeDone
    /\ Len(requests) >= 2
    /\ outcomes[1] \in {"raised", "none", "empty"}
    /\ requests[2].lo > requests[1].hi

\* the bar counts asked of the vendor so far
RequestedBars == {requests[i].n_bars : i \in 1..Len(requests)}

\* C13: every request asks for a bar count within the maximum bars-per-request
\* limit (5000, genspark.py 103-104): get_hist_by_date_range always asks for
\* between 100 and 5000 bars, and try_direct_download never asks for more than
\* the limit.
C13_BarsWithinLimit ==
    /\ prog \in {"large", "by_range"} =>
          \A n \in RequestedBars : MinBarsLimit <= n /\ n <= MaxBarsLimit
    /\ prog = "dl" => \A n \in RequestedBars : n <= MaxBarsLimit

\* the half of C13 the code keeps: the clamp of get_hist_by_date_range, for
\* every range (start after end included) and interval
HistByDateRangeBarsClamped ==
    prog \in {"large", "by_range"} =>
        \A n \in RequestedBars : MinBarsLimit <= n /\ n <= MaxBarsLimit

\* the candidate bar counts in the order the claim lists them
C14_Candidates(est) ==
    <<est, est + 10000, 50000, 100000, 200000, 500000, 1000000>>

\* the table made of the rows S = {<<row number, timestamp>>} of the raw result
\* of request req, in the order of the raw result
TableOf(S, req) ==
    [i \in 1..Cardinality(S) |->
        LET p == CHOOSE q \in S : Cardinality({r \in S : r[1] < q[1]}) = i - 1
        IN [ts |-> p[2], pl |-> <<req, p[1]>>]]

\* try_direct_download goes on with its next candidate
DirectMovesOn ==
    /\ attempt' = attempt + 1
    /\ pc' = "attempt"
    /\ phase' = phase /\ alt' = alt
    /\ result' = result

\* C14: try_direct_download issues its candidates in the listed order, one per
\* attempt, for the range and symbol it was given.  An attempt whose raw result
\* has no row in range (it raised, returned nothing, or all rows lie outside)
\* only moves on to the next candidate while one is left.  The first attempt
\* with a row in range ends the invocation, which returns exactly the rows in
\* range, in the order of the raw result; after the seventh failed attempt it
\* returns an empty table, and in no other case.  Once the script holds a
\* non-empty table no further request is issued.
C14_DirectDownloadOrder ==
    /\ [][(prog = "dl" /\ pc = "attempt" /\ requests' # requests) =>
            LET cands == C14_Candidates(calculate_bars_needed(DirectLo, end_date, interval))
                found == rawInRange' # {}
            IN /\ attempt \in 1..Len(cands)
               /\ requests' = Append(requests,
                       Request(cands[attempt], DirectLo, end_date, DirectSym))
               /\ found <=> (outcomes'[1] = "table")
               /\ (~found /\ attempt < Len(cands)) => DirectMovesOn
               /\ (found \/ attempt = Len(cands)) =>
                     /\ ~DirectMovesOn
                     /\ attempt' = 1 \/ pc' # "attempt"
                     /\ phase \in {"main", "alt"} =>
                           result' = TableValue(TableOf(rawInRange', Len(requests')))]_vars
    /\ [][(prog = "dl" /\ result.kind = "table" /\ ~IsEmpty(result.rows)) =>
            requests' = requests]_vars
    /\ []((prog = "dl" /\ pc = "attempt") =>
            LET cands == C14_Candidates(calculate_bars_needed(DirectLo, end_date, interval))
            IN /\ attempt - 1 <= Len(requests)
               /\ \A k \in 1..(attempt - 1) :
                     requests[Len(requests) - (attempt - 1) + k].n_bars = cands[k])

\* the main download returned at its third attempt, after two failed ones, a
\* table that leaves out a row of the raw result
C14_Witness ==
    /\ prog = "dl" /\ phase = "main" /\ pc = "after"
    /\ Len(requests) = 3
    /\ result.kind = "table"
    /\ Len(result.rows) = 1
    /\ result.rows[1].pl = <<3, 2>>
====
